---- MODULE Spec2Model ----
(***************************************************************************)
(* Model of the cloud-sync engine of the note-taking workspace             *)
(* (src/sync.js, second module body, lines 209-582) together with the      *)
(* helpers it calls in src/auth.js and src/ui.js.                          *)
(*                                                                         *)
(* Strings are sequences of one-character strings, so that sanitising,     *)
(* splitting, sorting and joining are computed as the code computes them.  *)
(* Every network request is two steps: the remote store serves it (Serve)  *)
(* and the suspended operation resumes (Resume); other operations may run  *)
(* in between, as they may at every await of a fetch.                      *)
(***************************************************************************)
EXTENDS Integers, Sequences, FiniteSets, TLC

\* an absent string (token, identifier), an absent content, an absent hash
NULL == "<none>"
NoContent == <<"<none>">>
NoHash == <<>>

\* ------------------------------------------------------------------ bounds
MaxTicks == 2
MaxChecks == 2
MaxUserOps == 1
MaxEdits == 1
MaxRemoteWrites == 1
MaxFailures == 1
MaxModals == 2
MaxEvents == 3
TickMs == 60000
StartTime == 1000000

\* ------------------------------------------------------- program constants
syncInterval == 120000
idleReturnThreshold == syncInterval * 2
recentTypingWindow == 30000
countdownTyping == 30
countdownIdle == 10

\* ----------------------------------------------------------------- strings
SEP == <<"_", "_", "_">>
EXT_MD == <<".", "m", "d">>
EXT_PUML == <<".", "p", "u", "m", "l">>
EXT_TXT == <<".", "t", "x", "t">>
ENTRY_NL == <<"\n">>
ENTRY_JOIN == <<"\n", "-", "-", "-", "\n">>

\* collation order of the characters the model uses. "U+03A9" (Greek capital
\* omega) and "U+2126" (ohm sign) each stand for one character: the two are
\* canonically equivalent, and localeCompare treats canonically equivalent
\* strings as equal.
Alphabet == <<"\n", " ", "_", "-", ".", "0", "1", "2", "3", "4", "5", "6", "7", "8", "9",
              "a", "b", "d", "l", "m", "N", "p", "t", "u", "W", "x", "U+03A9">>

CanonicalChar(c) == IF c = "U+2126" THEN "U+03A9" ELSE c

CharRank(c) == CHOOSE i \in 1..Len(Alphabet) : Alphabet[i] = CanonicalChar(c)

IsSpace(c) == c = " "

StartsWith(s, p) == Len(s) >= Len(p) /\ SubSeq(s, 1, Len(p)) = p

EndsWith(s, p) == Len(s) >= Len(p) /\ SubSeq(s, Len(s) - Len(p) + 1, Len(s)) = p

Drop(s, n) == SubSeq(s, n + 1, Len(s))

\* a.localeCompare(b) < 0
RECURSIVE StrLess(_, _)
StrLess(a, b) ==
    IF b = <<>> THEN FALSE
    ELSE IF a = <<>> THEN TRUE
    ELSE IF CharRank(a[1]) = CharRank(b[1]) THEN StrLess(Tail(a), Tail(b))
    ELSE CharRank(a[1]) < CharRank(b[1])

\* title.replace(/\s+/g, "_")
RECURSIVE ReplaceSpaceRuns(_)
ReplaceSpaceRuns(s) ==
    IF s = <<>> THEN <<>>
    ELSE IF IsSpace(s[1])
         THEN IF Len(s) > 1 /\ IsSpace(s[2])
              THEN ReplaceSpaceRuns(Tail(s))
              ELSE <<"_">> \o ReplaceSpaceRuns(Tail(s))
         ELSE <<s[1]>> \o ReplaceSpaceRuns(Tail(s))

\* s.replace(/_/g, " ")
ReplaceUnderscores(s) == [i \in 1..Len(s) |-> IF s[i] = "_" THEN " " ELSE s[i]]

\* s.split("___"): every non-overlapping occurrence, left to right
RECURSIVE SplitFrom(_, _)
SplitFrom(s, cur) ==
    IF s = <<>> THEN <<cur>>
    ELSE IF StartsWith(s, SEP) THEN <<cur>> \o SplitFrom(Drop(s, Len(SEP)), <<>>)
    ELSE SplitFrom(Tail(s), Append(cur, s[1]))

SplitSep(s) == SplitFrom(s, <<>>)

\* s.replace(/\.[^.]+$/, ""): drop a last dot that is followed by at least one character
LastDot(s) ==
    IF \E i \in 1..Len(s) : s[i] = "."
    THEN CHOOSE i \in 1..Len(s) : s[i] = "." /\ \A j \in (i + 1)..Len(s) : s[j] # "."
    ELSE 0

StripExtension(s) ==
    IF LastDot(s) > 0 /\ LastDot(s) < Len(s) THEN SubSeq(s, 1, LastDot(s) - 1) ELSE s

\* ------------------------------------------------------ workspace serializer
\* faulty variant: no .txt for the other kinds
ExtensionOf_mdOnly(type) ==
    IF type \in {"puml", "plantuml"} THEN EXT_PUML ELSE EXT_MD

ExtensionOf(type) ==
    IF type \in {"md", "markdown"} THEN EXT_MD
    ELSE IF type \in {"puml", "plantuml"} THEN EXT_PUML
    ELSE EXT_TXT

\* file.content || ""
ContentOrEmpty(c) == IF c = NoContent THEN <<>> ELSE c

FlattenFile(subject, file) ==
    [path |-> ReplaceSpaceRuns(subject.title) \o SEP \o ReplaceSpaceRuns(file.title)
                  \o ExtensionOf(file.type),
     content |-> ContentOrEmpty(file.content)]

RECURSIVE FlattenSubjects(_)
FlattenSubjects(ss) ==
    IF ss = <<>> THEN <<>>
    ELSE [i \in 1..Len(ss[1].files) |-> FlattenFile(ss[1], ss[1].files[i])]
             \o FlattenSubjects(Tail(ss))

flattenWorkspace(ss) == FlattenSubjects(ss)

\* gistFiles[f.path] = { content: f.content || "" }: a later entry of the same
\* path overwrites the value and keeps the first position
RECURSIVE PutAll(_, _)
PutAll(obj, files) ==
    IF files = <<>> THEN obj
    ELSE LET f == files[1]
             e == [name |-> f.path, content |-> ContentOrEmpty(f.content)]
         IN  IF \E i \in 1..Len(obj) : obj[i].name = f.path
             THEN PutAll([i \in 1..Len(obj) |-> IF obj[i].name = f.path THEN e ELSE obj[i]],
                         Tail(files))
             ELSE PutAll(Append(obj, e), Tail(files))

gistFilesOf(files) == PutAll(<<>>, files)

\* rebuildWorkspaceFromGist; identifiers are drawn from the counter uid upward.
\* An entry whose name holds no separator leaves rawFileWithExt undefined and
\* .replace throws a TypeError (rebuildThrows).
RebuildEntryOk(e) == Len(SplitSep(e.name)) >= 2

RawSubject(e) == SplitSep(e.name)[1]

RawFileWithExt(e) == SplitSep(e.name)[2]

RebuiltFile(e, uid) ==
    [id |-> <<"uuid", uid>>,
     title |-> ReplaceUnderscores(StripExtension(RawFileWithExt(e))),
     type |-> IF EndsWith(RawFileWithExt(e), EXT_PUML) THEN "puml" ELSE "md",
     content |-> e.content]

RECURSIVE RebuildInto(_, _, _)
RebuildInto(acc, entries, uid) ==
    IF entries = <<>> THEN acc
    ELSE LET e == entries[1]
             title == ReplaceUnderscores(RawSubject(e))
         IN  IF \E i \in 1..Len(acc) : acc[i].title = title
             THEN RebuildInto(
                      [i \in 1..Len(acc) |->
                          IF acc[i].title = title
                          THEN [acc[i] EXCEPT !.files = Append(@, RebuiltFile(e, uid))]
                          ELSE acc[i]],
                      Tail(entries), uid + 1)
             ELSE RebuildInto(
                      Append(acc, [id |-> <<"uuid", uid>>, title |-> title, isOpen |-> TRUE,
                                   files |-> <<RebuiltFile(e, uid + 1)>>]),
                      Tail(entries), uid + 2)

rebuildThrows(gistFiles) == \E i \in 1..Len(gistFiles) : ~RebuildEntryOk(gistFiles[i])

\* Object.values(subjectsMap): the keys that are array indices ("0", "7",
\* "2024") come first, in ascending numeric order, then the other keys in
\* insertion order
Digits == <<"0", "1", "2", "3", "4", "5", "6", "7", "8", "9">>

IsDigit(c) == \E i \in 1..Len(Digits) : Digits[i] = c

DigitValue(c) == (CHOOSE i \in 1..Len(Digits) : Digits[i] = c) - 1

IsIndexKey(key) ==
    /\ key # <<>>
    /\ \A i \in 1..Len(key) : IsDigit(key[i])
    /\ Len(key) = 1 \/ key[1] # "0"

RECURSIVE IndexValue(_)
IndexValue(key) ==
    IF key = <<>> THEN 0
    ELSE 10 * IndexValue(SubSeq(key, 1, Len(key) - 1)) + DigitValue(key[Len(key)])

RECURSIVE InsertByIndex(_, _)
InsertByIndex(sorted, d) ==
    IF sorted = <<>> THEN <<d>>
    ELSE IF IndexValue(d.title) < IndexValue(sorted[1].title) THEN <<d>> \o sorted
    ELSE <<sorted[1]>> \o InsertByIndex(Tail(sorted), d)

RECURSIVE SortByIndex(_)
SortByIndex(ds) ==
    IF ds = <<>> THEN <<>>
    ELSE InsertByIndex(SortByIndex(SubSeq(ds, 1, Len(ds) - 1)), ds[Len(ds)])

HasIndexKey(d) == IsIndexKey(d.title)

HasNameKey(d) == ~IsIndexKey(d.title)

ObjectValues(ds) == SortByIndex(SelectSeq(ds, HasIndexKey)) \o SelectSeq(ds, HasNameKey)

rebuildWorkspaceFromGist(gistFiles, uid) == ObjectValues(RebuildInto(<<>>, gistFiles, uid))

\* number of identifiers a rebuild consumes
RECURSIVE CountIds(_)
CountIds(ss) == IF ss = <<>> THEN 0 ELSE 1 + Len(ss[1].files) + CountIds(Tail(ss))

\* ------------------------------------------------------------ content hasher
RECURSIVE InsertSorted(_, _)
InsertSorted(sorted, e) ==
    IF sorted = <<>> THEN <<e>>
    ELSE IF StrLess(e.name, sorted[1].name) THEN <<e>> \o sorted
    ELSE <<sorted[1]>> \o InsertSorted(Tail(sorted), e)

\* .sort(([a], [b]) => a.localeCompare(b)) (stable)
RECURSIVE SortEntries(_)
SortEntries(entries) ==
    IF entries = <<>> THEN <<>>
    ELSE InsertSorted(SortEntries(SubSeq(entries, 1, Len(entries) - 1)),
                      entries[Len(entries)])

\* faulty variant: the content is left out of the digested string
EntryString_nameOnly(e) == e.name

EntryString(e) == e.name \o ENTRY_NL \o ContentOrEmpty(e.content)

RECURSIVE JoinEntries(_)
JoinEntries(strs) ==
    IF strs = <<>> THEN <<>>
    ELSE IF Len(strs) = 1 THEN strs[1]
    ELSE strs[1] \o ENTRY_JOIN \o JoinEntries(Tail(strs))

CanonicalString(files) ==
    JoinEntries([i \in 1..Len(SortEntries(files)) |-> EntryString(SortEntries(files)[i])])

\* SHA-256 rendered as hex: injective on the canonical string, never empty
hashGistContent(files) == <<"sha256", CanonicalString(files)>>

\* ------------------------------------------------------------------- state
VARIABLES
    now,                     \* Date.now()
    lastSyncedHash,          \* sync.js:224
    lastSuccessfulSyncTime,  \* sync.js:220
    lastLocalEditTime,       \* sync.js:221
    subjects,                \* ui.js:603, the in-memory workspace
    localStorage,            \* keys github_token, gist_id, lastSyncedHash, kb_data
    syncStatus,              \* state shown by setSyncStatus
    notifications,           \* [count, last] of showNotification calls
    modals,                  \* open countdown modals, oldest first
    task,                    \* the asynchronous operations, one record per slot
    loop,                    \* startSyncLoop: "init", "startup", "running", "dead"
    uid,                     \* identifiers handed out by crypto.randomUUID
    gists,                   \* the remote store: id -> [exists, files, updated_at]
    remoteClock,             \* the remote store's modification counter
    budget,                  \* how many bounded events have happened
    ev                       \* the last step taken (history)

vars == <<now, lastSyncedHash, lastSuccessfulSyncTime, lastLocalEditTime, subjects,
          localStorage, syncStatus, notifications, modals, task, loop, uid, gists,
          remoteClock, budget, ev>>

\* the bounded events that have happened so far
Spent ==
    budget.checks + budget.userOps + budget.edits + budget.remoteWrites + budget.failures
        + ((now - StartTime) \div TickMs)

CanSpend == Spent < MaxEvents

\* history kept with the budget: quiet holds from a cancelled conflict until
\* the next remote write, manual save, load or restore, or confirmed conflict;
\* late is the set of checks begun while quiet held
Disturbed(b) == [b EXCEPT !.quiet = FALSE, !.late = {}]

Cancelled(b) == [b EXCEPT !.cancels = @ + 1, !.quiet = TRUE, !.late = {}]

CheckBegun(b, c) ==
    [b EXCEPT !.checks = @ + 1, !.late = IF b.quiet THEN @ \cup {c} ELSE @ \ {c}]

GistIds == {"g1", "g2"}
CheckTasks == {"c1", "c2"}
UserTasks == {"u1"}
ConfirmTasks == {"k1", "k2"}
Tasks == CheckTasks \cup UserTasks \cup ConfirmTasks

\* workspaces and remote file maps of the model
File_a == [id |-> <<"f", 1>>, title |-> <<"N">>, type |-> "md", content |-> <<"a">>]
W_A == <<[id |-> <<"s", 1>>, title |-> <<"W">>, isOpen |-> TRUE, files |-> <<File_a>>]>>
F_A == gistFilesOf(flattenWorkspace(W_A))
F_X == <<[name |-> <<"W", "_", "_", "_", "N", ".", "m", "d">>, content |-> <<"x">>]>>
F_FOREIGN == <<[name |-> <<"x", ".", "t", "x", "t">>, content |-> <<"x">>]>>
EditContents == {<<"a">>, <<"b">>}
RemoteFileMaps == {F_A, F_X, F_FOREIGN}

\* a snapshot as the store returns it; NoGist stands for "no snapshot"
Gist(id, files, updated) == [id |-> id, files |-> files, updated_at |-> updated]
NoGist == Gist(NULL, <<>>, 0)
NoReq == [kind |-> "none", id |-> NULL, files |-> <<>>]
NoResp == [status |-> "none", data |-> <<>>]

IdleTask ==
    [pc |-> "idle", startup |-> FALSE, idleReturn |-> FALSE, latest |-> NoGist,
     gistId |-> NULL, files |-> <<>>, req |-> NoReq, resp |-> NoResp]

\* the program's mutable state as one record, for the sequential code below
Cur ==
    [now |-> now, lastSyncedHash |-> lastSyncedHash,
     lastSuccessfulSyncTime |-> lastSuccessfulSyncTime,
     lastLocalEditTime |-> lastLocalEditTime, subjects |-> subjects,
     localStorage |-> localStorage, syncStatus |-> syncStatus,
     notifications |-> notifications, modals |-> modals, task |-> task,
     loop |-> loop, uid |-> uid, ev |-> ev]

Commit(s) ==
    /\ now' = s.now
    /\ lastSyncedHash' = s.lastSyncedHash
    /\ lastSuccessfulSyncTime' = s.lastSuccessfulSyncTime
    /\ lastLocalEditTime' = s.lastLocalEditTime
    /\ subjects' = s.subjects
    /\ localStorage' = s.localStorage
    /\ syncStatus' = s.syncStatus
    /\ notifications' = s.notifications
    /\ modals' = s.modals
    /\ task' = s.task
    /\ loop' = s.loop
    /\ uid' = s.uid
    /\ ev' = s.ev

Event(s, op, t) == [s EXCEPT !.ev = [op |-> op, task |-> t]]

\* ------------------------------------------------------------ auth.js, ui.js
Truthy(raw) == raw # NULL /\ raw # ""

\* faulty variant: the strings "undefined" and "null" pass for a token
getToken_anyString(s) ==
    LET t == s.localStorage.github_token
    IN  IF ~Truthy(t) THEN NULL ELSE t

getToken(s) ==
    LET t == s.localStorage.github_token
    IN  IF ~Truthy(t) \/ t = "undefined" \/ t = "null" THEN NULL ELSE t

getGistId(s) ==
    LET raw == s.localStorage.gist_id
    IN  IF ~Truthy(raw) \/ raw = "undefined" \/ raw = "null" THEN NULL ELSE raw

\* faulty variant: the identifier is not written
setGistId_dropped(s, id) == s

setGistId(s, id) == [s EXCEPT !.localStorage.gist_id = id]

showNotification(s, severity, text) ==
    [s EXCEPT !.notifications = [count |-> @.count + 1, last |-> <<severity, text>>]]

loggedIn(s) == getToken(s) # NULL

\* the failing branch of requireLogin
requireLoginFailed(s) == showNotification(s, "warning", "Please sign in with GitHub first")

setSubjects(s, newSubjects) == [s EXCEPT !.subjects = newSubjects]

saveState(s) == [s EXCEPT !.localStorage.kb_data = s.subjects]

setSyncStatus(s, state) == [s EXCEPT !.syncStatus = state]

showSyncState(s, state) == setSyncStatus(s, state)

showCountdownModal(s, countdown, latest) ==
    [s EXCEPT !.modals = Append(@, [countdown |-> countdown, latest |-> latest])]

\* --------------------------------------------------------------- task helpers
Finish(s, t) == [s EXCEPT !.task[t] = IdleTask]

\* the promise of runSyncCheck settles: startSyncLoop goes on to setInterval
\* when it resolved, and ends without it when it rejected
CheckSettled(s, t, threw) ==
    IF s.task[t].startup
    THEN [s EXCEPT !.loop = IF threw THEN "dead" ELSE "running", !.task[t].startup = FALSE]
    ELSE s

Fetch(s, t, pc, req) ==
    [s EXCEPT !.task[t].pc = pc, !.task[t].req = req, !.task[t].resp = NoResp]

\* ------------------------------------------------------------------ sync.js
\* faulty variant: the hash is kept in memory and never persisted
updateSyncState_memoryOnly(s, hash) ==
    IF hash = NoHash THEN s
    ELSE [s EXCEPT !.lastSyncedHash = hash, !.lastSuccessfulSyncTime = s.now]

updateSyncState(s, hash) ==
    IF hash = NoHash THEN s
    ELSE [s EXCEPT !.lastSyncedHash = hash,
                   !.localStorage.lastSyncedHash = hash,
                   !.lastSuccessfulSyncTime = s.now]

recentlyTyped(s) == (s.now - s.lastLocalEditTime) < recentTypingWindow

\* faulty variant: recent typing is not looked at
countdownOf_alwaysIdle(s) == countdownIdle

countdownOf(s) == IF recentlyTyped(s) THEN countdownTyping ELSE countdownIdle

\* faulty variant: the hash is advanced as soon as the conflict is seen
handleCloudChange_adoptsEarly(s, latest, idleReturn) ==
    updateSyncState(showCountdownModal(s, countdownOf(s), latest),
                    hashGistContent(latest.files))

handleCloudChange(s, latest, idleReturn) == showCountdownModal(s, countdownOf(s), latest)

\* faulty variant: the edit window is not looked at
hasLocalChanges_always(s) == TRUE

hasLocalChanges(s) == (s.now - s.lastLocalEditTime) < syncInterval

idleReturnOf(s) == (s.now - s.lastSuccessfulSyncTime) > idleReturnThreshold

\* list.sort((a, b) => new Date(b.updated_at) - new Date(a.updated_at)); list[0]
NewestOf(list) ==
    list[CHOOSE i \in 1..Len(list) :
            /\ \A j \in 1..Len(list) : list[j].updated_at <= list[i].updated_at
            /\ \A j \in 1..(i - 1) : list[j].updated_at < list[i].updated_at]

\* what getNewestGistAcrossAccount returns for a response: NoGist stands for null
newestGistOf(resp) ==
    IF resp.status = "ok" /\ resp.data # <<>> THEN NewestOf(resp.data) ELSE NoGist

\* what getLatestWorkspaceGist returns for a response: NoGist stands for null
latestGistOf(resp) == IF resp.status = "ok" THEN resp.data[1] ELSE NoGist

\* cloudHashChanged, after its fetch
cloudHashChanged(s, latest) ==
    IF latest = NoGist THEN FALSE ELSE hashGistContent(latest.files) # s.lastSyncedHash

\* saveWorkspaceToGist up to its first fetch
saveWorkspaceToGist(s, t) ==
    IF ~loggedIn(s) THEN Finish(requireLoginFailed(s), t)
    ELSE LET gistId == getGistId(s)
             files == flattenWorkspace(s.subjects)
             s1 == showSyncState(s, "saving")
             s2 == [s1 EXCEPT !.task[t].files = files, !.task[t].gistId = gistId]
         IN  IF gistId # NULL
             THEN Fetch(s2, t, "sv_existing", [kind |-> "get", id |-> gistId, files |-> <<>>])
             ELSE Fetch(s2, t, "sv_write",
                        [kind |-> "post", id |-> NULL, files |-> gistFilesOf(files)])

RECURSIVE InsertString(_, _)
InsertString(sorted, x) ==
    IF sorted = <<>> THEN <<x>>
    ELSE IF StrLess(x, sorted[1]) THEN <<x>> \o sorted
    ELSE <<sorted[1]>> \o InsertString(Tail(sorted), x)

RECURSIVE SortStrings(_)
SortStrings(xs) ==
    IF xs = <<>> THEN <<>> ELSE InsertString(SortStrings(Tail(xs)), xs[1])

workspaceFileList(files) == SortStrings([i \in 1..Len(files) |-> files[i].path])

gistFileList(gistFiles) == SortStrings([i \in 1..Len(gistFiles) |-> gistFiles[i].name])

filenamesMatch(existingFiles, files) == gistFileList(existingFiles) = workspaceFileList(files)

\* saveWorkspaceToGist after the fetch of the existing gist
saveAfterExisting(s, t) ==
    LET resp == s.task[t].resp
        files == s.task[t].files
        gistId == s.task[t].gistId
    IN  IF resp.status = "throw"
        THEN Event(Finish(showNotification(showSyncState(s, "error"), "error",
                                           "Failed to load workspace"), t),
                   "save_existing_threw", t)
        ELSE IF resp.status = "ok" /\ filenamesMatch(resp.data[1].files, files)
        THEN Event(Fetch(s, t, "sv_write",
                         [kind |-> "patch", id |-> gistId, files |-> gistFilesOf(files)]),
                   "save_patch", t)
        ELSE Event(Fetch([s EXCEPT !.task[t].gistId = NULL], t, "sv_write",
                         [kind |-> "post", id |-> NULL, files |-> gistFilesOf(files)]),
                   "save_post", t)

\* faulty variant: the hash is taken from the map that was sent
hashedAfterSave_sent(s, t, data) == gistFilesOf(s.task[t].files)

\* the content hashGistContent is applied to after a save: data.files
hashedAfterSave(s, t, data) == data.files

\* saveWorkspaceToGist after the create or update request
saveAfterWrite(s, t) ==
    LET resp == s.task[t].resp
    IN  IF resp.status = "throw" THEN Event(Finish(s, t), "save_threw", t)
        ELSE IF resp.status # "ok"
        THEN Event(Finish(showNotification(showSyncState(s, "error"), "error",
                                           "Failed to load workspace"), t),
                   "save_failed", t)
        ELSE LET data == resp.data[1]
                 s1 == IF s.task[t].gistId = NULL /\ Truthy(data.id)
                       THEN setGistId(s, data.id) ELSE s
                 h == hashGistContent(hashedAfterSave(s, t, data))
                 s2 == [s1 EXCEPT !.lastSyncedHash = h,
                                  !.localStorage.lastSyncedHash = h,
                                  !.lastSuccessfulSyncTime = s.now]
             IN  Event(Finish(showNotification(showSyncState(s2, "synced"), "success",
                                               "Workspace saved to cloud"), t),
                       "save_ok", t)

\* maybeAutoSave up to the fetch of cloudHashChanged
maybeAutoSave(s, t) ==
    IF ~hasLocalChanges(s) THEN Finish(s, t)
    ELSE IF ~loggedIn(s) THEN saveWorkspaceToGist(requireLoginFailed(s), t)
    ELSE IF getGistId(s) = NULL THEN saveWorkspaceToGist(s, t)
    ELSE Fetch(s, t, "as_get", [kind |-> "get", id |-> getGistId(s), files |-> <<>>])

\* maybeAutoSave after the fetch of cloudHashChanged
autoSaveAfterRecheck(s, t) ==
    LET resp == s.task[t].resp
    IN  IF resp.status = "throw" THEN Event(Finish(s, t), "autosave_threw", t)
        ELSE IF cloudHashChanged(s, latestGistOf(resp))
        THEN Event(Finish(s, t), "autosave_skip", t)
        ELSE IF latestGistOf(resp) = NoGist
        THEN Event(saveWorkspaceToGist(s, t), "autosave_unchecked", t)
        ELSE Event(saveWorkspaceToGist(s, t), "autosave_save", t)

\* faulty variant: the hash is not persisted
confirmTail_memoryOnly(s, t) ==
    LET h == hashGistContent(s.task[t].latest.files)
    IN  Event(Finish([s EXCEPT !.lastSyncedHash = h,
                               !.lastSuccessfulSyncTime = s.now], t),
              "confirm_done", t)

\* the tail of onConfirm, after loadWorkspaceFromGist has returned
confirmTail(s, t) ==
    LET h == hashGistContent(s.task[t].latest.files)
    IN  Event(Finish([s EXCEPT !.lastSyncedHash = h,
                               !.localStorage.lastSyncedHash = h,
                               !.lastSuccessfulSyncTime = s.now], t),
              "confirm_done", t)

loadReturned(s, t) ==
    IF t \in ConfirmTasks THEN confirmTail(s, t) ELSE Event(Finish(s, t), "load_done", t)

\* loadWorkspaceFromGist up to its fetch
loadWorkspaceFromGist(s, t) ==
    IF ~loggedIn(s) THEN loadReturned(requireLoginFailed(s), t)
    ELSE IF getGistId(s) = NULL
    THEN loadReturned(showNotification(s, "info",
                                       "No cloud backup found. Save to Cloud first."), t)
    ELSE Fetch(s, t, "ld_get", [kind |-> "get", id |-> getGistId(s), files |-> <<>>])

\* data.files of a response body: an error body has none, and for..in over
\* undefined visits nothing
responseFiles(resp) == IF resp.status = "ok" THEN resp.data[1].files ELSE <<>>

\* loadWorkspaceFromGist after its fetch
loadAfterFetch(s, t) ==
    LET resp == s.task[t].resp
        gistFiles == responseFiles(resp)
    IN  IF resp.status = "throw" \/ rebuildThrows(gistFiles)
        THEN Event(Finish(s, t), "load_threw", t)
        ELSE LET rebuilt == rebuildWorkspaceFromGist(gistFiles, s.uid)
                 s1 == [setSubjects(s, rebuilt) EXCEPT !.uid = s.uid + CountIds(rebuilt)]
                 s2 == saveState(s1)
             IN  loadReturned(showNotification(s2, "success",
                                               "Workspace loaded from cloud"), t)

\* restoreFromGistVersion up to its fetch; the identifier is not tested
restoreFromGistVersion(s, t) ==
    IF ~loggedIn(s) THEN Event(Finish(requireLoginFailed(s), t), "restore_nologin", t)
    ELSE Fetch(s, t, "rs_get", [kind |-> "get_version", id |-> getGistId(s), files |-> <<>>])

\* restoreFromGistVersion after its fetch
restoreAfterFetch(s, t) ==
    LET resp == s.task[t].resp
        gistFiles == responseFiles(resp)
    IN  IF resp.status = "throw" \/ rebuildThrows(gistFiles)
        THEN Event(Finish(s, t), "restore_threw", t)
        ELSE LET rebuilt == rebuildWorkspaceFromGist(gistFiles, s.uid)
                 s1 == [setSubjects(s, rebuilt) EXCEPT !.uid = s.uid + CountIds(rebuilt)]
                 s2 == saveState(s1)
             IN  Event(Finish(showNotification(s2, "success",
                                               "Workspace restored from previous version"), t),
                       "restore_done", t)

onConfirm(s, t, latest) ==
    loadWorkspaceFromGist([setGistId(s, latest.id) EXCEPT !.task[t].latest = latest], t)

\* faulty variant: the cancel path says nothing
onCancel_silent(s) == s

onCancel(s) ==
    showNotification(s, "warning", "Cloud version is newer. Saving now will overwrite it.")

\* runSyncCheck up to the fetch of getNewestGistAcrossAccount
runSyncCheck(s, t, startup) ==
    LET s1 == [s EXCEPT !.task[t].startup = startup, !.task[t].idleReturn = idleReturnOf(s)]
    IN  IF ~loggedIn(s1) THEN Finish(CheckSettled(requireLoginFailed(s1), t, FALSE), t)
        ELSE Fetch(s1, t, "chk_list", [kind |-> "list", id |-> NULL, files |-> <<>>])

\* faulty variant: every check adopts
firstObservation_always(s) == TRUE

firstObservation(s) == s.lastSyncedHash = NoHash

cloudChanged(s, cloudHash) == cloudHash # s.lastSyncedHash

\* runSyncCheck after the fetch
checkAfterFetch(s, t) ==
    LET resp == s.task[t].resp
        latest == newestGistOf(resp)
        cloudHash == hashGistContent(latest.files)
    IN  IF resp.status = "throw" THEN Event(Finish(CheckSettled(s, t, TRUE), t), "check_threw", t)
        ELSE IF latest = NoGist
        THEN Event(Finish(CheckSettled(s, t, FALSE), t), "check_nolatest", t)
        ELSE IF firstObservation(s)
        THEN Event(Finish(CheckSettled(updateSyncState(s, cloudHash), t, FALSE), t),
                   "check_adopt", t)
        ELSE IF cloudChanged(s, cloudHash)
        THEN Event(Finish(CheckSettled(handleCloudChange(s, latest, s.task[t].idleReturn),
                                       t, FALSE), t), "check_conflict", t)
        ELSE Event(maybeAutoSave(CheckSettled(updateSyncState(s, cloudHash), t, FALSE), t),
                   "check_same", t)

\* ------------------------------------------------------------ the remote store
Absent == [exists |-> FALSE, files |-> <<>>, updated_at |-> 0]

Stored(files, updated) == [exists |-> TRUE, files |-> files, updated_at |-> updated]

GistOrder == <<"g1", "g2">>

RECURSIVE ListFrom(_, _)
ListFrom(store, ids) ==
    IF ids = <<>> THEN <<>>
    ELSE IF store[ids[1]].exists
    THEN <<Gist(ids[1], store[ids[1]].files, store[ids[1]].updated_at)>>
             \o ListFrom(store, Tail(ids))
    ELSE ListFrom(store, Tail(ids))

\* GET /gists
ListGists(store) == ListFrom(store, GistOrder)

FreeIds(store) == {g \in GistIds : ~store[g].exists}

NewId(store) == IF ~store["g1"].exists THEN "g1" ELSE "g2"

\* PATCH: a named file is replaced or added, the others stay
RECURSIVE MergeFiles(_, _)
MergeFiles(old, new) ==
    IF new = <<>> THEN old
    ELSE IF \E i \in 1..Len(old) : old[i].name = new[1].name
    THEN MergeFiles([i \in 1..Len(old) |-> IF old[i].name = new[1].name THEN new[1] ELSE old[i]],
                    Tail(new))
    ELSE MergeFiles(Append(old, new[1]), Tail(new))

Ok(data) == [status |-> "ok", data |-> data]
HttpError == [status |-> "http_error", data |-> <<>>]
Threw == [status |-> "throw", data |-> <<>>]

Respond(t, resp) == task' = [task EXCEPT ![t].resp = resp, ![t].req = NoReq]

Pending(t) == task[t].req.kind # "none"

\* the store answers a request as it stands now
ServeOk(t) ==
    /\ Pending(t)
    /\ LET req == task[t].req
       IN  \/ /\ req.kind = "list"
              /\ Respond(t, Ok(ListGists(gists)))
              /\ UNCHANGED <<gists, remoteClock>>
           \/ /\ req.kind = "get"
              /\ Respond(t, IF gists[req.id].exists
                            THEN Ok(<<Gist(req.id, gists[req.id].files,
                                           gists[req.id].updated_at)>>)
                            ELSE HttpError)
              /\ UNCHANGED <<gists, remoteClock>>
           \/ /\ req.kind = "get_version"
              /\ Respond(t, IF req.id \in GistIds /\ gists[req.id].exists
                            THEN Ok(<<Gist(req.id, gists[req.id].files,
                                           gists[req.id].updated_at)>>)
                            ELSE HttpError)
              /\ UNCHANGED <<gists, remoteClock>>
           \/ /\ req.kind = "post"
              /\ FreeIds(gists) # {}
              /\ LET g == NewId(gists)
                 IN  /\ gists' = [gists EXCEPT ![g] = Stored(req.files, remoteClock + 1)]
                     /\ Respond(t, Ok(<<Gist(g, req.files, remoteClock + 1)>>))
              /\ remoteClock' = remoteClock + 1
           \/ /\ req.kind = "patch"
              /\ IF gists[req.id].exists
                 THEN LET merged == MergeFiles(gists[req.id].files, req.files)
                      IN  /\ gists' = [gists EXCEPT ![req.id] = Stored(merged, remoteClock + 1)]
                          /\ Respond(t, Ok(<<Gist(req.id, merged, remoteClock + 1)>>))
                          /\ remoteClock' = remoteClock + 1
                 ELSE /\ Respond(t, HttpError)
                      /\ UNCHANGED <<gists, remoteClock>>
    /\ ev' = [op |-> "serve", task |-> t]
    /\ UNCHANGED <<now, lastSyncedHash, lastSuccessfulSyncTime, lastLocalEditTime, subjects,
                   localStorage, syncStatus, notifications, modals, loop, uid, budget>>

\* the request fails: a non-2xx answer, or the transport fails and fetch rejects
ServeFail(t) ==
    /\ Pending(t)
    /\ budget.failures < MaxFailures
    /\ CanSpend
    /\ \E r \in {HttpError, Threw} : Respond(t, r)
    /\ budget' = [budget EXCEPT !.failures = @ + 1]
    /\ ev' = [op |-> "serve_fail", task |-> t]
    /\ UNCHANGED <<now, lastSyncedHash, lastSuccessfulSyncTime, lastLocalEditTime, subjects,
                   localStorage, syncStatus, notifications, modals, loop, uid, gists,
                   remoteClock>>

\* another writer of the account creates or rewrites a gist
RemoteWrite ==
    /\ loop # "init"
    /\ budget.remoteWrites < MaxRemoteWrites
    /\ CanSpend
    /\ \E g \in GistIds, files \in RemoteFileMaps :
          /\ ~(gists[g].exists /\ gists[g].files = files)
          /\ gists' = [gists EXCEPT ![g] = Stored(files, remoteClock + 1)]
    /\ remoteClock' = remoteClock + 1
    /\ budget' = Disturbed([budget EXCEPT !.remoteWrites = @ + 1])
    /\ ev' = [op |-> "remote_write", task |-> NULL]
    /\ UNCHANGED <<now, lastSyncedHash, lastSuccessfulSyncTime, lastLocalEditTime, subjects,
                   localStorage, syncStatus, notifications, modals, task, loop, uid>>

\* ---------------------------------------------------------------- the actions
Env == <<gists, remoteClock>>

\* a new operation takes the first idle slot of its kind
SlotOrder == <<"c1", "c2", "k1", "k2", "u1">>

SlotRank(t) == CHOOSE i \in 1..Len(SlotOrder) : SlotOrder[i] = t

FirstIdle(slots, t) ==
    /\ task[t].pc = "idle"
    /\ \A o \in slots : task[o].pc = "idle" => SlotRank(t) <= SlotRank(o)

Tick ==
    /\ loop # "init"
    /\ now < StartTime + MaxTicks * TickMs
    /\ CanSpend
    /\ now' = now + TickMs
    /\ ev' = [op |-> "tick", task |-> NULL]
    /\ UNCHANGED <<lastSyncedHash, lastSuccessfulSyncTime, lastLocalEditTime, subjects,
                   localStorage, syncStatus, notifications, modals, task, loop, uid, gists,
                   remoteClock, budget>>

\* init() calls startSyncLoop, which starts the startup check
StartSyncLoop(c) ==
    /\ loop = "init"
    /\ FirstIdle(CheckTasks, c)
    /\ CanSpend
    /\ Commit(Event(runSyncCheck([Cur EXCEPT !.loop = "startup"], c, TRUE), "check_start", c))
    /\ budget' = CheckBegun(budget, c)
    /\ UNCHANGED Env

\* the interval timer fires
PeriodicCheck(c) ==
    /\ loop = "running"
    /\ FirstIdle(CheckTasks, c)
    /\ budget.checks < MaxChecks
    /\ CanSpend
    /\ Commit(Event(runSyncCheck(Cur, c, FALSE), "check_start", c))
    /\ budget' = CheckBegun(budget, c)
    /\ UNCHANGED Env

ResumeCheck(c) ==
    /\ task[c].pc = "chk_list"
    /\ task[c].resp.status # "none"
    /\ Len(checkAfterFetch(Cur, c).modals) <= MaxModals
    /\ Commit(checkAfterFetch(Cur, c))
    /\ UNCHANGED <<gists, remoteClock, budget>>

ResumeAutoSave(c) ==
    /\ task[c].pc = "as_get"
    /\ task[c].resp.status # "none"
    /\ Commit(autoSaveAfterRecheck(Cur, c))
    /\ UNCHANGED <<gists, remoteClock, budget>>

ResumeSaveExisting(t) ==
    /\ task[t].pc = "sv_existing"
    /\ task[t].resp.status # "none"
    /\ Commit(saveAfterExisting(Cur, t))
    /\ UNCHANGED <<gists, remoteClock, budget>>

ResumeSaveWrite(t) ==
    /\ task[t].pc = "sv_write"
    /\ task[t].resp.status # "none"
    /\ Commit(saveAfterWrite(Cur, t))
    /\ UNCHANGED <<gists, remoteClock, budget>>

ResumeLoad(t) ==
    /\ task[t].pc = "ld_get"
    /\ task[t].resp.status # "none"
    /\ Commit(loadAfterFetch(Cur, t))
    /\ UNCHANGED <<gists, remoteClock, budget>>

\* the user presses Save (button, or Ctrl+S)
UserSave(u) ==
    /\ loop # "init"
    /\ task[u].pc = "idle"
    /\ budget.userOps < MaxUserOps
    /\ CanSpend
    /\ Commit(Event(saveWorkspaceToGist(Cur, u), "user_save", u))
    /\ budget' = Disturbed([budget EXCEPT !.userOps = @ + 1])
    /\ UNCHANGED Env

\* the user presses Load
UserLoad(u) ==
    /\ loop # "init"
    /\ task[u].pc = "idle"
    /\ budget.userOps < MaxUserOps
    /\ CanSpend
    /\ Commit(loadWorkspaceFromGist(Event(Cur, "user_load", u), u))
    /\ budget' = Disturbed([budget EXCEPT !.userOps = @ + 1])
    /\ UNCHANGED Env

\* the restore dialog has listed the revisions of the stored gist and the user
\* picks the newest one
UserRestore(u) ==
    /\ loop # "init"
    /\ task[u].pc = "idle"
    /\ budget.userOps < MaxUserOps
    /\ CanSpend
    /\ loggedIn(Cur)
    /\ getGistId(Cur) # NULL
    /\ Commit(restoreFromGistVersion(Event(Cur, "user_restore", u), u))
    /\ budget' = Disturbed([budget EXCEPT !.userOps = @ + 1])
    /\ UNCHANGED Env

ResumeRestore(t) ==
    /\ task[t].pc = "rs_get"
    /\ task[t].resp.status # "none"
    /\ Commit(restoreAfterFetch(Cur, t))
    /\ UNCHANGED <<gists, remoteClock, budget>>

\* the user types into the open file: the input handler calls markLocalEdit and
\* updatePreview, which stores the text and saves the state
UserEdit ==
    /\ loop # "init"
    /\ budget.edits < MaxEdits
    /\ CanSpend
    /\ subjects # <<>>
    /\ subjects[1].files # <<>>
    /\ \E c \in EditContents :
          /\ c # subjects[1].files[1].content
          /\ subjects' = [subjects EXCEPT ![1].files[1].content = c]
    /\ localStorage' = [localStorage EXCEPT !.kb_data = subjects']
    /\ lastLocalEditTime' = now
    /\ budget' = [budget EXCEPT !.edits = @ + 1]
    /\ ev' = [op |-> "edit", task |-> NULL]
    /\ UNCHANGED <<now, lastSyncedHash, lastSuccessfulSyncTime, syncStatus, notifications,
                   modals, task, loop, uid, gists, remoteClock>>

RemoveAt(seq, i) == SubSeq(seq, 1, i - 1) \o SubSeq(seq, i + 1, Len(seq))

\* the modal fires onConfirm
ModalConfirm(i, k) ==
    /\ i \in 1..Len(modals)
    /\ FirstIdle(ConfirmTasks, k)
    /\ Commit(onConfirm(Event([Cur EXCEPT !.modals = RemoveAt(modals, i)], "confirm", k), k,
                         modals[i].latest))
    /\ budget' = Disturbed(budget)
    /\ UNCHANGED <<gists, remoteClock>>

\* the modal fires onCancel (the user's choice, or the countdown ran out)
ModalCancel(i) ==
    /\ i \in 1..Len(modals)
    /\ Commit(Event(onCancel([Cur EXCEPT !.modals = RemoveAt(modals, i)]), "cancel", NULL))
    /\ budget' = Cancelled(budget)
    /\ UNCHANGED <<gists, remoteClock>>

\* ------------------------------------------------------------------ the spec
HashChoices == {NoHash, hashGistContent(F_A)}

\* what localStorage may hold under github_token when the page loads
StoredTokens == {NULL, "undefined", "null", "tok"}

Init ==
    /\ now = StartTime
    /\ \E tok \in StoredTokens, gid \in {NULL, "g1"}, h \in HashChoices :
          /\ localStorage = [github_token |-> tok, gist_id |-> gid, lastSyncedHash |-> h,
                             kb_data |-> W_A]
          /\ lastSyncedHash = h
    /\ lastSuccessfulSyncTime = 0
    /\ lastLocalEditTime = 0
    /\ subjects = W_A
    /\ syncStatus = "none"
    /\ notifications = [count |-> 0, last |-> <<"", "">>]
    /\ modals = <<>>
    /\ task = [t \in Tasks |-> IdleTask]
    /\ loop = "init"
    /\ uid = 1
    /\ \E f \in {<<>>} \cup {<<F_A>>, <<F_X>>} :
          gists = [g \in GistIds |-> IF g = "g1" /\ f # <<>> THEN Stored(f[1], 1) ELSE Absent]
    /\ remoteClock = 1
    /\ budget = [checks |-> 0, userOps |-> 0,
                 edits |-> 0, remoteWrites |-> 0, failures |-> 0,
                 cancels |-> 0, quiet |-> FALSE, late |-> {}]
    /\ ev = [op |-> "init", task |-> NULL]

Next ==
    \/ Tick
    \/ RemoteWrite
    \/ UserEdit
    \/ \E t \in Tasks : ServeOk(t)
    \/ \E t \in Tasks : ServeFail(t)
    \/ \E c \in CheckTasks : StartSyncLoop(c)
    \/ \E c \in CheckTasks : PeriodicCheck(c)
    \/ \E c \in CheckTasks : ResumeCheck(c)
    \/ \E c \in CheckTasks : ResumeAutoSave(c)
    \/ \E t \in Tasks : ResumeSaveExisting(t)
    \/ \E t \in Tasks : ResumeSaveWrite(t)
    \/ \E t \in Tasks : ResumeLoad(t)
    \/ \E u \in UserTasks : UserSave(u)
    \/ \E u \in UserTasks : UserLoad(u)
    \/ \E u \in UserTasks : UserRestore(u)
    \/ \E u \in UserTasks : ResumeRestore(u)
    \/ \E i \in 1..MaxModals, k \in ConfirmTasks : ModalConfirm(i, k)
    \/ \E i \in 1..MaxModals : ModalCancel(i)

Spec == Init /\ [][Next]_vars

\* ------------------------------------------------ the serializer on its own
\* flattenWorkspace and rebuildWorkspaceFromGist applied to workspaces the
\* editor can hold: addSubject and addFile take any non-empty title the user
\* types, a folder starts without files, and a file is created "md" or "puml".
MaxFolders == 2
MaxFilesPerFolder == 1

SampleTitles == {<<"W">>, <<"a", " ", "b">>, <<"a", "_", "b">>}

\* file lists: the leading files of a few fixed runs. Besides the two types
\* addFile creates, a run holds the other types flattenWorkspace tells apart
\* and a file without content, as a workspace read back from localStorage may.
SampleFileRuns ==
    {<<[title |-> <<"N">>, type |-> "md", content |-> <<"x">>],
       [title |-> <<"a", " ", "b">>, type |-> "puml", content |-> <<>>]>>,
     <<[title |-> <<"a", " ", "b">>, type |-> "puml", content |-> <<>>],
       [title |-> <<"N">>, type |-> "md", content |-> <<"x">>]>>,
     <<[title |-> <<"a", "_", "b">>, type |-> "md", content |-> <<"x">>],
       [title |-> <<"a", ".", "b">>, type |-> "puml", content |-> <<"x">>]>>,
     <<[title |-> <<"a", ".", "b">>, type |-> "puml", content |-> <<"x">>],
       [title |-> <<"N">>, type |-> "markdown", content |-> NoContent]>>,
     <<[title |-> <<"a", " ", " ", "b">>, type |-> "markdown", content |-> <<"x">>],
       [title |-> <<"N">>, type |-> "txt", content |-> <<"x">>]>>,
     <<[title |-> <<"N">>, type |-> "plantuml", content |-> NoContent],
       [title |-> <<"N">>, type |-> "plantuml", content |-> <<"x">>]>>,
     <<[title |-> <<"N">>, type |-> "txt", content |-> <<"x">>],
       [title |-> <<"a", " ", " ", "b">>, type |-> "md", content |-> <<>>]>>}

Shorter(a, b) == IF a < b THEN a ELSE b

SampleFileLists ==
    {SubSeq(r, 1, Shorter(k, Len(r))) : r \in SampleFileRuns, k \in 0..MaxFilesPerFolder}

SeqsUpTo(S, n) == UNION {[1..k -> S] : k \in 0..n}

SampleFolders == [title : SampleTitles, files : SampleFileLists]

\* identifiers by position: "s" + n for a folder, "f" + n for a file
WithIds(ws) ==
    [i \in 1..Len(ws) |->
        [id |-> <<"s", i>>, title |-> ws[i].title, isOpen |-> TRUE,
         files |-> [j \in 1..Len(ws[i].files) |->
                       [id |-> <<"f", 10 * i + j>>, title |-> ws[i].files[j].title,
                        type |-> ws[i].files[j].type,
                        content |-> ws[i].files[j].content]]]]

SampleWorkspaces == {WithIds(ws) : ws \in SeqsUpTo(SampleFolders, MaxFolders)}

InitSerializer ==
    /\ now = StartTime
    /\ lastSyncedHash = NoHash
    /\ lastSuccessfulSyncTime = 0
    /\ lastLocalEditTime = 0
    /\ \E w \in SampleWorkspaces :
          /\ subjects = w
          /\ localStorage = [github_token |-> "tok", gist_id |-> NULL,
                             lastSyncedHash |-> NoHash, kb_data |-> w]
    /\ syncStatus = "none"
    /\ notifications = [count |-> 0, last |-> <<"", "">>]
    /\ modals = <<>>
    /\ task = [t \in Tasks |-> IdleTask]
    /\ loop = "init"
    /\ uid = 1
    /\ gists = [g \in GistIds |-> Absent]
    /\ remoteClock = 1
    /\ budget = [checks |-> 0, userOps |-> 0,
                 edits |-> 0, remoteWrites |-> 0, failures |-> 0,
                 cancels |-> 0, quiet |-> FALSE, late |-> {}]
    /\ ev = [op |-> "init", task |-> NULL]

\* const files = flattenWorkspace(), and the file map a save builds from it,
\* as the store keeps it
Flatten ==
    /\ ev.op = "init"
    /\ gists' = [gists EXCEPT !["g1"] =
                    Stored(gistFilesOf(flattenWorkspace(subjects)), remoteClock + 1)]
    /\ remoteClock' = remoteClock + 1
    /\ task' = [task EXCEPT !["u1"].files = flattenWorkspace(subjects)]
    /\ ev' = [op |-> "flatten", task |-> NULL]
    /\ UNCHANGED <<now, lastSyncedHash, lastSuccessfulSyncTime, lastLocalEditTime, subjects,
                   localStorage, syncStatus, notifications, modals, loop, uid, budget>>

\* setSubjects(rebuildWorkspaceFromGist(files)) of the stored file map
Rebuild ==
    /\ ev.op = "flatten"
    /\ ~rebuildThrows(gists["g1"].files)
    /\ subjects' = rebuildWorkspaceFromGist(gists["g1"].files, uid)
    /\ uid' = uid + CountIds(subjects')
    /\ ev' = [op |-> "rebuild", task |-> NULL]
    /\ UNCHANGED <<now, lastSyncedHash, lastSuccessfulSyncTime, lastLocalEditTime,
                   localStorage, syncStatus, notifications, modals, task, loop, gists,
                   remoteClock, budget>>

NextSerializer ==
    \/ Flatten
    \/ Rebuild

SpecSerializer == InitSerializer /\ [][NextSerializer]_vars

\* ------------------------------------------------- a file map on its own
\* hashGistContent and rebuildWorkspaceFromGist applied to file maps a gist can
\* hold. A map is the sequence of its entries in insertion order; its names
\* are distinct.
MaxEntries == 2

SampleNames ==
    {<<"W", "_", "_", "_", "N", ".", "m", "d">>,
     <<"W", "_", "_", "_", "a", "_", "_", "_", "b", ".", "m", "d">>,
     <<"U+03A9", "_", "_", "_", "N", ".", "m", "d">>,
     <<"U+2126", "_", "_", "_", "N", ".", "m", "d">>,
     <<"2", "_", "_", "_", "N", ".", "m", "d">>,
     <<"1", "_", "_", "_", "N", ".", "p", "u", "m", "l">>}

SampleContents == {<<>>, <<"x">>, NoContent}

SampleEntries == [name : SampleNames, content : SampleContents]

NamesOf(files) == {files[i].name : i \in 1..Len(files)}

DistinctNames(files) == Cardinality(NamesOf(files)) = Len(files)

SampleMaps == {m \in SeqsUpTo(SampleEntries, MaxEntries) : DistinctNames(m)}

InitFileMap ==
    /\ now = StartTime
    /\ lastSyncedHash = NoHash
    /\ lastSuccessfulSyncTime = 0
    /\ lastLocalEditTime = 0
    /\ subjects = W_A
    /\ localStorage = [github_token |-> "tok", gist_id |-> "g1",
                       lastSyncedHash |-> NoHash, kb_data |-> W_A]
    /\ syncStatus = "none"
    /\ notifications = [count |-> 0, last |-> <<"", "">>]
    /\ modals = <<>>
    /\ task = [t \in Tasks |-> IdleTask]
    /\ loop = "init"
    /\ uid = 1
    /\ \E m \in SampleMaps :
          gists = [g \in GistIds |-> IF g = "g1" THEN Stored(m, 1) ELSE Absent]
    /\ remoteClock = 1
    /\ budget = [checks |-> 0, userOps |-> 0,
                 edits |-> 0, remoteWrites |-> 0, failures |-> 0,
                 cancels |-> 0, quiet |-> FALSE, late |-> {}]
    /\ ev = [op |-> "init", task |-> NULL]

\* lastSyncedHash = await hashGistContent(files) of the stored map
HashStored ==
    /\ ev.op = "init"
    /\ lastSyncedHash' = hashGistContent(gists["g1"].files)
    /\ localStorage' = [localStorage EXCEPT !.lastSyncedHash = lastSyncedHash']
    /\ ev' = [op |-> "hash", task |-> NULL]
    /\ UNCHANGED <<now, lastSuccessfulSyncTime, lastLocalEditTime, subjects, syncStatus,
                   notifications, modals, task, loop, uid, gists, remoteClock, budget>>

\* the same map with its entries inserted in another order
Reorderings(n) == {f \in [1..n -> 1..n] : \A i, j \in 1..n : f[i] = f[j] => i = j}

Reorder ==
    /\ ev.op = "hash"
    /\ \E f \in Reorderings(Len(gists["g1"].files)) :
          /\ \E i \in DOMAIN f : f[i] # i
          /\ gists' = [gists EXCEPT !["g1"].files = [i \in DOMAIN f |-> @[f[i]]]]
    /\ ev' = [op |-> "reorder", task |-> NULL]
    /\ UNCHANGED <<now, lastSyncedHash, lastSuccessfulSyncTime, lastLocalEditTime, subjects,
                   localStorage, syncStatus, notifications, modals, task, loop, uid,
                   remoteClock, budget>>

\* the map with the content of one file replaced
ChangeContent ==
    /\ ev.op = "hash"
    /\ \E i \in 1..Len(gists["g1"].files), c \in SampleContents :
          /\ c # gists["g1"].files[i].content
          /\ gists' = [gists EXCEPT !["g1"].files[i].content = c]
    /\ ev' = [op |-> "change_content", task |-> NULL]
    /\ UNCHANGED <<now, lastSyncedHash, lastSuccessfulSyncTime, lastLocalEditTime, subjects,
                   localStorage, syncStatus, notifications, modals, task, loop, uid,
                   remoteClock, budget>>

\* the map with one file renamed to a path the map does not hold
ChangePath ==
    /\ ev.op = "hash"
    /\ \E i \in 1..Len(gists["g1"].files), n \in SampleNames :
          /\ n \notin NamesOf(gists["g1"].files)
          /\ gists' = [gists EXCEPT !["g1"].files[i].name = n]
    /\ ev' = [op |-> "change_path", task |-> NULL]
    /\ UNCHANGED <<now, lastSyncedHash, lastSuccessfulSyncTime, lastLocalEditTime, subjects,
                   localStorage, syncStatus, notifications, modals, task, loop, uid,
                   remoteClock, budget>>

\* setSubjects(rebuildWorkspaceFromGist(files)) of the stored map
RebuildStored ==
    /\ ev.op = "init"
    /\ ~rebuildThrows(gists["g1"].files)
    /\ subjects' = rebuildWorkspaceFromGist(gists["g1"].files, uid)
    /\ uid' = uid + CountIds(subjects')
    /\ ev' = [op |-> "rebuild", task |-> NULL]
    /\ UNCHANGED <<now, lastSyncedHash, lastSuccessfulSyncTime, lastLocalEditTime,
                   localStorage, syncStatus, notifications, modals, task, loop, gists,
                   remoteClock, budget>>

NextFileMap ==
    \/ HashStored
    \/ Reorder
    \/ ChangeContent
    \/ ChangePath
    \/ RebuildStored

SpecFileMap == InitFileMap /\ [][NextFileMap]_vars

\* ================================================================== claims
\* steps of the operations, told by the program counters
CheckResumes(c) == task[c].pc = "chk_list" /\ task[c].resp.status # "none" /\ task'[c] # task[c]

RecheckResumes(c) == task[c].pc = "as_get" /\ task[c].resp.status # "none" /\ task'[c] # task[c]

\* the snapshot the check got from its fetch
Fetched(c) == task[c].resp.status = "ok" /\ task[c].resp.data # <<>>

FetchedGist(c) == NewestOf(task[c].resp.data)

SavePcs == {"sv_existing", "sv_write"}

\* no operation issued a request in this step, no save was begun
NoRequestIssued == \A t \in Tasks : task'[t].req.kind # "none" => task'[t].req = task[t].req

NoSaveBegun == syncStatus' = syncStatus /\ \A t \in Tasks : task'[t].pc \in SavePcs => task[t].pc \in SavePcs

\* C1: first-sync adoption. A check that compares a fetched snapshot of hash H
\* while lastSyncedHash is null ends with lastSyncedHash = H in memory and in
\* localStorage and lastSuccessfulSyncTime = now; it opens no conflict modal and
\* begins no save.
C1_FirstSyncAdoption ==
    [][\A c \in CheckTasks :
          (CheckResumes(c) /\ Fetched(c) /\ lastSyncedHash = NoHash)
          => /\ lastSyncedHash' = hashGistContent(FetchedGist(c).files)
             /\ localStorage'.lastSyncedHash = hashGistContent(FetchedGist(c).files)
             /\ lastSuccessfulSyncTime' = now
             /\ modals' = modals
             /\ task'[c].pc = "idle"
             /\ NoRequestIssued
             /\ NoSaveBegun]_vars

C1_Witness ==
    /\ ev.op = "check_adopt"
    /\ lastSyncedHash # NoHash
    /\ localStorage.lastSyncedHash = lastSyncedHash
    /\ lastSuccessfulSyncTime = now

\* C2: conflict detection. A check that compares a fetched snapshot of hash
\* H2 with lastSyncedHash = H1, H1 non-null and H2 # H1, opens the conflict
\* modal with that snapshot, leaves lastSyncedHash (memory and localStorage) and
\* lastSuccessfulSyncTime as they were, and evaluates no auto-save.
C2_ConflictDetection ==
    [][\A c \in CheckTasks :
          (/\ CheckResumes(c) /\ Fetched(c)
           /\ lastSyncedHash # NoHash
           /\ hashGistContent(FetchedGist(c).files) # lastSyncedHash)
          => /\ Len(modals') = Len(modals) + 1
             /\ SubSeq(modals', 1, Len(modals)) = modals
             /\ modals'[Len(modals')].latest = FetchedGist(c)
             /\ lastSyncedHash' = lastSyncedHash
             /\ localStorage'.lastSyncedHash = localStorage.lastSyncedHash
             /\ lastSuccessfulSyncTime' = lastSuccessfulSyncTime
             /\ task'[c].pc = "idle"
             /\ NoRequestIssued
             /\ NoSaveBegun]_vars

C2_Witness ==
    /\ ev.op = "check_conflict"
    /\ modals # <<>>
    /\ lastSyncedHash # NoHash
    /\ hashGistContent(modals[Len(modals)].latest.files) # lastSyncedHash

EditedWithinInterval == (now - lastLocalEditTime) < syncInterval

\* C3: auto-save gating. In a check whose fetched hash equals lastSyncedHash:
\* with no edit within the last syncInterval nothing more happens; with an edit
\* within it the re-check (or the save) is begun; and when the re-check returns
\* a snapshot, a save is begun if its hash equals lastSyncedHash and no save is
\* begun if it differs.
C3_AutoSaveGating ==
    [][\A c \in CheckTasks :
          /\ (/\ CheckResumes(c) /\ Fetched(c)
              /\ lastSyncedHash # NoHash
              /\ hashGistContent(FetchedGist(c).files) = lastSyncedHash)
             => IF EditedWithinInterval
                THEN task'[c].pc \in SavePcs \cup {"as_get"}
                ELSE task'[c].pc = "idle" /\ NoRequestIssued /\ NoSaveBegun
          /\ (RecheckResumes(c) /\ task[c].resp.status = "ok")
             => IF hashGistContent(task[c].resp.data[1].files) = lastSyncedHash
                THEN task'[c].pc \in SavePcs /\ syncStatus' = "saving"
                ELSE task'[c].pc = "idle" /\ NoRequestIssued /\ NoSaveBegun]_vars

C3_Witness ==
    /\ ev.op = "autosave_save"
    /\ task[ev.task].pc \in SavePcs
    /\ syncStatus = "saving"
    /\ EditedWithinInterval

\* C4: auto-save fires only after a re-check that succeeded and matched.
\* Whenever maybeAutoSave begins the save, the re-check just before it returned
\* a snapshot whose hash equals lastSyncedHash; a re-check that failed, or that
\* had nothing to fetch, never leads to a save.
C4_SaveOnlyAfterMatchingRecheck ==
    [][\A c \in CheckTasks :
          /\ (RecheckResumes(c) /\ task'[c].pc \in SavePcs)
             => /\ task[c].resp.status = "ok"
                /\ hashGistContent(task[c].resp.data[1].files) = lastSyncedHash
          /\ CheckResumes(c) => task'[c].pc \notin SavePcs]_vars

\* C5: the snapshot the periodic check fetches, hashes and compares is the
\* snapshot of the locally stored identifier; the check never asks for the
\* newest snapshot of the whole account.
C5_CheckFetchesStoredIdentifier ==
    \A c \in CheckTasks :
        task[c].pc = "chk_list"
        => /\ Pending(c) => task[c].req.kind = "get" /\ task[c].req.id = getGistId(Cur)
           /\ Fetched(c) => FetchedGist(c).id = getGistId(Cur)

Quiet ==
    UNCHANGED <<lastSyncedHash, lastSuccessfulSyncTime, localStorage, subjects, modals,
                notifications, syncStatus>>

CheckBegins == budget'.checks = budget.checks + 1

\* C6: silent abort. A check that finds no stored identifier, or whose fetch
\* fails, ends there: lastSyncedHash, lastSuccessfulSyncTime, the stored
\* identifier and the workspace stay as they were, no conflict modal is opened,
\* no save is begun and no notification is shown.
C6_SilentAbort ==
    [][/\ (CheckBegins /\ getGistId(Cur) = NULL)
          => Quiet /\ \A c \in CheckTasks : task'[c].pc = task[c].pc
       /\ \A c \in CheckTasks :
             (CheckResumes(c) /\ (task[c].resp.status # "ok" \/ getGistId(Cur) = NULL))
             => Quiet /\ task'[c].pc = "idle"]_vars

\* C7: the loop never stops because a check failed. Whatever the outcome of the
\* startup check, once it has ended the interval timer is armed.
C7_LoopSurvivesFailedCheck ==
    (loop # "init" /\ \A c \in CheckTasks : ~task[c].startup) => loop = "running"

\* C8: lastSyncedHash changes value only at first-observation adoption, at a
\* conflict confirm and at a successful save; the new value is the hash of a
\* snapshot the store returned, and it is written only after the network
\* operation of that path (the check's fetch, the confirm's pull, the save's
\* create or update) has answered successfully.
C8_HashWrittenAtThreePoints ==
    [][lastSyncedHash' # lastSyncedHash
       => \/ \E c \in CheckTasks :
                /\ CheckResumes(c) /\ Fetched(c) /\ lastSyncedHash = NoHash
                /\ lastSyncedHash' = hashGistContent(FetchedGist(c).files)
          \/ \E k \in ConfirmTasks :
                /\ task[k].pc = "ld_get" /\ task'[k].pc = "idle"
                /\ task[k].resp.status = "ok"
                /\ lastSyncedHash' = hashGistContent(task[k].latest.files)
          \/ \E t \in Tasks :
                /\ task[t].pc = "sv_write" /\ task'[t].pc = "idle"
                /\ task[t].resp.status = "ok"
                /\ lastSyncedHash' = hashGistContent(task[t].resp.data[1].files)]_vars

\* a workspace without its identifiers
FileContent(f) == [title |-> f.title, type |-> f.type, content |-> f.content]

FolderContent(d) ==
    [title |-> d.title, files |-> [j \in 1..Len(d.files) |-> FileContent(d.files[j])]]

WorkspaceContent(ws) == [i \in 1..Len(ws) |-> FolderContent(ws[i])]

ConfirmCompletes(k) == ev'.op = "confirm_done" /\ ev'.task = k /\ task'[k].pc = "idle"

\* C9: the confirm path. When onConfirm completes, the stored identifier is the
\* fetched snapshot's, the workspace in memory and in localStorage is the
\* rebuild of that same snapshot, and lastSyncedHash is its hash; the hash is
\* advanced only after a pull that succeeded has replaced the workspace.
C9_ConfirmAdoptsFetchedSnapshot ==
    [][\A k \in ConfirmTasks :
          ConfirmCompletes(k)
          => /\ task[k].pc = "ld_get"
             /\ task[k].resp.status = "ok"
             /\ localStorage'.gist_id = task[k].latest.id
             /\ ~rebuildThrows(task[k].latest.files)
             /\ WorkspaceContent(subjects')
                    = WorkspaceContent(rebuildWorkspaceFromGist(task[k].latest.files, 1))
             /\ localStorage'.kb_data = subjects'
             /\ lastSyncedHash' = hashGistContent(task[k].latest.files)]_vars

CancelStep == Len(modals') = Len(modals) - 1 /\ task' = task

UserSaveBegins(u) == budget'.userOps = budget.userOps + 1 /\ ev'.op = "user_save" /\ ev'.task = u

\* C10: the cancel path. onCancel leaves lastSyncedHash (memory and
\* localStorage), lastSuccessfulSyncTime, lastLocalEditTime, the stored
\* identifier and the workspace as they were and shows exactly one warning; a
\* save the user starts after a cancel is begun like any other save.
C10_CancelLeavesStateAlone ==
    [][/\ CancelStep
          => /\ UNCHANGED <<lastSyncedHash, lastSuccessfulSyncTime, lastLocalEditTime,
                            subjects, localStorage, syncStatus>>
             /\ notifications'.count = notifications.count + 1
             /\ notifications'.last[1] = "warning"
       /\ \A u \in UserTasks :
             (UserSaveBegins(u) /\ budget.cancels > 0 /\ loggedIn(Cur))
             => /\ syncStatus' = "saving"
                /\ task'[u].pc \in SavePcs
                /\ task'[u].files = flattenWorkspace(subjects)
                /\ Pending(u)']_vars

C10_Witness ==
    /\ budget.cancels > 0
    /\ notifications.last[1] = "warning"
    /\ ev.op = "user_save"
    /\ \E u \in UserTasks : ev.task = u /\ Pending(u) /\ task[u].pc \in SavePcs
    /\ syncStatus = "saving"

\* C11: identifier switching is atomic. A step of the confirm path that gives
\* the stored identifier a new value also replaces the workspace, in memory and
\* in localStorage, by the rebuild of that identifier's snapshot: no state that
\* another operation can observe has the new identifier with the old workspace.
C11_IdentifierSwitchAtomic ==
    [][\A k \in ConfirmTasks :
          (task'[k].pc # task[k].pc /\ localStorage'.gist_id # localStorage.gist_id)
          => /\ localStorage'.gist_id = task'[k].latest.id
             /\ WorkspaceContent(subjects')
                    = WorkspaceContent(rebuildWorkspaceFromGist(task'[k].latest.files, 1))
             /\ localStorage'.kb_data = subjects']_vars

SaveWriteResumes(t) == task[t].pc = "sv_write" /\ task[t].resp.status # "none" /\ task'[t].pc = "idle"

\* C12: save success. When the create or update request of a save was answered
\* successfully, lastSyncedHash in memory and in localStorage is the hash of the
\* files of the response, and lastSuccessfulSyncTime is the current time.
C12_SaveAdoptsReturnedContent ==
    [][\A t \in Tasks :
          (SaveWriteResumes(t) /\ task[t].resp.status = "ok")
          => /\ lastSyncedHash' = hashGistContent(task[t].resp.data[1].files)
             /\ localStorage'.lastSyncedHash = hashGistContent(task[t].resp.data[1].files)
             /\ lastSuccessfulSyncTime' = now
             /\ syncStatus' = "synced"]_vars

\* a save has succeeded whose response held more than the map that was sent
C12_Witness ==
    /\ ev.op = "save_ok"
    /\ budget.edits = 0
    /\ lastSyncedHash # hashGistContent(gistFilesOf(flattenWorkspace(subjects)))
    /\ lastSyncedHash = localStorage.lastSyncedHash
    /\ lastSyncedHash = hashGistContent(gists[localStorage.gist_id].files)
    /\ lastSuccessfulSyncTime = now

SaveExistingResumes(t) ==
    task[t].pc = "sv_existing" /\ task[t].resp.status # "none" /\ task'[t].pc # "sv_existing"

SyncStateKept ==
    /\ lastSyncedHash' = lastSyncedHash
    /\ localStorage'.lastSyncedHash = localStorage.lastSyncedHash
    /\ lastSuccessfulSyncTime' = lastSuccessfulSyncTime
    /\ localStorage'.gist_id = localStorage.gist_id

\* C13: a failed save leaves the sync state untouched. When the fetch of the
\* existing gist fails (non-2xx, or a transport error) the save ends there,
\* without a create or an update; when the create or update is answered non-2xx
\* or its transport fails the save ends; in each case lastSyncedHash (memory and
\* localStorage), lastSuccessfulSyncTime and the stored identifier keep their
\* values.
C13_FailedSaveKeepsSyncState ==
    [][\A t \in Tasks :
          /\ (SaveExistingResumes(t) /\ task[t].resp.status # "ok")
             => task'[t].pc = "idle" /\ SyncStateKept
          /\ (SaveWriteResumes(t) /\ task[t].resp.status # "ok")
             => SyncStateKept]_vars

SaveBegins(t) == task[t].pc \notin SavePcs /\ task'[t].pc \in SavePcs

\* C14: create on first save. A save begun with a credential and no stored
\* identifier issues a create, not an update and not a fetch of an existing
\* gist; when a create issued without an identifier is answered successfully,
\* the identifier of the response becomes the stored identifier.
C14_CreateOnFirstSave ==
    [][\A t \in Tasks :
          /\ (SaveBegins(t) /\ loggedIn(Cur) /\ getGistId(Cur) = NULL)
             => /\ task'[t].pc = "sv_write"
                /\ task'[t].req.kind = "post"
                /\ task'[t].req.files = gistFilesOf(flattenWorkspace(subjects))
          /\ (SaveWriteResumes(t) /\ task[t].resp.status = "ok" /\ task[t].gistId = NULL)
             => /\ localStorage'.gist_id = task[t].resp.data[1].id
                /\ gists[localStorage'.gist_id].exists]_vars

\* a first save has created a gist and stored its identifier
C14_Witness ==
    /\ ev.op = "save_ok"
    /\ budget.failures = 0
    /\ budget.remoteWrites = 0
    /\ budget.cancels = 0
    /\ modals = <<>>
    /\ getGistId(Cur) # NULL
    /\ gists[getGistId(Cur)].files = gistFilesOf(flattenWorkspace(subjects))
    /\ gists[getGistId(Cur)].updated_at = remoteClock
    /\ remoteClock = 2

\* the paths of the remote listing that the flatten output does not hold
RemovedPaths(existingFiles, files) ==
    {existingFiles[i].name : i \in 1..Len(existingFiles)}
        \ {files[i].path : i \in 1..Len(files)}

\* C15: update with explicit deletions. When a save has fetched the gist of the
\* stored identifier and its listing holds a path the flatten output does not,
\* the save issues an update of that same identifier whose file map has a null
\* entry for each such path; it issues no create, and the stored identifier is
\* the same after the save.
C15_UpdateWithExplicitDeletions ==
    [][\A t \in Tasks :
          /\ (/\ SaveExistingResumes(t)
              /\ task[t].resp.status = "ok"
              /\ RemovedPaths(task[t].resp.data[1].files, task[t].files) # {})
             => /\ task'[t].pc = "sv_write"
                /\ task'[t].req.kind = "patch"
                /\ task'[t].req.id = task[t].gistId
                /\ \A p \in RemovedPaths(task[t].resp.data[1].files, task[t].files) :
                      \E i \in 1..Len(task'[t].req.files) :
                         /\ task'[t].req.files[i].name = p
                         /\ task'[t].req.files[i].content = NoContent
          /\ (SaveWriteResumes(t) /\ task[t].gistId # NULL)
             => localStorage'.gist_id = localStorage.gist_id]_vars

NoCredentialStored == localStorage.github_token \in {NULL, "", "undefined", "null"}

\* C16: save without a credential. When localStorage holds no token, or the
\* string "undefined" or "null", saveWorkspaceToGist issues no request, leaves
\* lastSyncedHash, lastSuccessfulSyncTime, the stored identifier, the workspace
\* and the sync status as they were, and shows the login-required warning once.
C16_SaveWithoutCredential ==
    [][\A u \in UserTasks :
          (UserSaveBegins(u) /\ NoCredentialStored)
          => /\ task'[u] = IdleTask
             /\ SyncStateKept
             /\ localStorage' = localStorage
             /\ subjects' = subjects
             /\ syncStatus' = syncStatus
             /\ gists' = gists
             /\ notifications'.count = notifications.count + 1
             /\ notifications'.last = <<"warning", "Please sign in with GitHub first">>]_vars

C16_Witness ==
    /\ ev.op = "user_save"
    /\ localStorage.github_token \in {"undefined", "null"}
    /\ notifications.last = <<"warning", "Please sign in with GitHub first">>
    /\ \A t \in Tasks : task[t] = IdleTask
    /\ syncStatus = "none"

LoadPcs == {"ld_get", "rs_get"}

UserLoadResumes(u) == task[u].pc \in LoadPcs /\ task[u].resp.status # "none" /\ task'[u].pc = "idle"

\* the fetch of the snapshot failed: transport error, non-2xx, or no file map
SnapshotFetchFailed(u) == task[u].resp.status # "ok" \/ task[u].resp.data = <<>>

\* C17: a failed load or restore started by the user does not touch the
\* workspace. When the fetch of loadWorkspaceFromGist or restoreFromGistVersion
\* fails, subjects and the kb_data entry of localStorage are the same after the
\* operation as before, and no success notification is shown.
C17_FailedLoadKeepsWorkspace ==
    [][\A u \in UserTasks :
          (UserLoadResumes(u) /\ SnapshotFetchFailed(u))
          => /\ subjects' = subjects
             /\ localStorage'.kb_data = localStorage.kb_data
             /\ notifications'.last[1] # "success"]_vars

Severities == {"info", "success", "warning", "error"}

\* a save or load started by the user returns at once (no credential, or no
\* identifier on load), or ends on a failed response
UserOpRefused(u) ==
    /\ budget'.userOps = budget.userOps + 1
    /\ ev'.task = u
    /\ task'[u].pc = "idle"

UserOpEndsFailed(u) ==
    /\ task[u].pc \in SavePcs \cup {"ld_get"}
    /\ task[u].resp.status \in {"http_error", "throw"}
    /\ task'[u].pc = "idle"

UserOpGoesOn(u) == task'[u].pc # task[u].pc /\ task'[u].pc # "idle"

\* C18: every failure path of a save or load started by the user ends in exactly
\* one notification with a severity tag: the step that ends the operation on a
\* failure (no credential, no identifier on load, a failed pre-save fetch, a
\* non-2xx answer, a transport error) shows one notification, and the steps
\* before it show none.
C18_OneNotificationPerFailure ==
    [][\A u \in UserTasks :
          /\ (UserOpRefused(u) \/ UserOpEndsFailed(u))
             => /\ notifications'.count = notifications.count + 1
                /\ notifications'.last[1] \in Severities
          /\ UserOpGoesOn(u) => notifications'.count = notifications.count]_vars

ModalOpens == Len(modals') = Len(modals) + 1

\* C19: countdown selection. Whenever a check opens the conflict modal, the
\* countdown it passes is 30 when now - lastLocalEditTime < 30000 at that
\* moment and 10 otherwise, whatever the idle-return flag of the check; opening
\* the modal changes nothing else of the sync state.
C19_CountdownSelection ==
    [][ModalOpens
       => /\ modals'[Len(modals')].countdown
                = IF now - lastLocalEditTime < 30000 THEN 30 ELSE 10
          /\ \A i \in 1..Len(modals) : modals'[i] = modals[i]
          /\ UNCHANGED <<lastSyncedHash, lastSuccessfulSyncTime, lastLocalEditTime, subjects,
                         localStorage, syncStatus, notifications>>]_vars

\* a conflict found while the user was typing
C19_Witness ==
    /\ ev.op = "check_conflict"
    /\ modals # <<>>
    /\ modals[Len(modals)].countdown = 30
    /\ now - lastLocalEditTime < 30000

HasSeparator(s) == \E i \in 1..Len(s) : StartsWith(Drop(s, i - 1), SEP)

NoSeparatorIn(ws) ==
    \A i \in 1..Len(ws) :
        /\ ~HasSeparator(ws[i].title)
        /\ \A j \in 1..Len(ws[i].files) : ~HasSeparator(ws[i].files[j].title)

\* C20: flatten/rebuild round trip. For a workspace whose folder and file
\* titles hold no separator sequence, rebuilding the flattened workspace gives
\* back the same folders and files: same count, same titles, same type tags
\* and same contents, identifiers aside.
C20_FlattenRebuildRoundTrip ==
    (ev.op = "rebuild" /\ NoSeparatorIn(localStorage.kb_data))
        => WorkspaceContent(subjects) = WorkspaceContent(localStorage.kb_data)

\* C21: hash order independence. A file map hashed after its entries were
\* inserted in another order has the hash it had before: the hash depends only
\* on the set of (path, content) pairs.
C21_HashOrderIndependence ==
    ev.op = "reorder" => hashGistContent(gists["g1"].files) = lastSyncedHash

OneFileChanged == ev'.op \in {"change_content", "change_path"}

\* C22: hash sensitivity. When a file map is changed in exactly one file's
\* content or exactly one path, a change between an empty and a missing
\* content included, the string that hashGistContent digests changes.
C22_HashSensitivity ==
    [][OneFileChanged
       => CanonicalString(gists'["g1"].files) # CanonicalString(gists["g1"].files)]_vars

NoLineBreak(files) ==
    \A i \in 1..Len(files) : \A k \in 1..Len(files[i].name) : files[i].name[k] # "\n"

ContentStringChanged ==
    \E i \in 1..Len(gists["g1"].files) :
        ContentOrEmpty(gists'["g1"].files[i].content)
            # ContentOrEmpty(gists["g1"].files[i].content)

\* C22, amended: for a map whose paths hold no line break, a change of exactly
\* one path changes the digested string, and a change of exactly one file's
\* content changes it exactly when the content strings differ, a missing
\* content counting as the empty string: a change between an empty and a
\* missing content leaves the digested string, and the hash, as they were.
C22_HashSensitivityOfStrings ==
    [][(OneFileChanged /\ NoLineBreak(gists["g1"].files) /\ NoLineBreak(gists'["g1"].files))
       => /\ ev'.op = "change_path"
             => CanonicalString(gists'["g1"].files) # CanonicalString(gists["g1"].files)
          /\ ev'.op = "change_content"
             => /\ (CanonicalString(gists'["g1"].files) # CanonicalString(gists["g1"].files))
                      <=> ContentStringChanged
                /\ (hashGistContent(gists'["g1"].files) # hashGistContent(gists["g1"].files))
                      <=> ContentStringChanged]_vars

\* one content string of a two-file map was replaced and the hash moved
C22_Witness ==
    /\ ev.op = "change_content"
    /\ Len(gists["g1"].files) = 2
    /\ \A i \in 1..2 : gists["g1"].files[i].content # NoContent
    /\ hashGistContent(gists["g1"].files) # lastSyncedHash

\* the positions of a title that sanitizing keeps: all but a whitespace
\* character that follows another
KeptPositions(t) == {i \in 1..Len(t) : ~(IsSpace(t[i]) /\ i > 1 /\ IsSpace(t[i - 1]))}

KeptAt(t, k) ==
    CHOOSE i \in KeptPositions(t) : Cardinality({j \in KeptPositions(t) : j <= i}) = k

Sanitized(t) ==
    [k \in 1..Cardinality(KeptPositions(t)) |->
        IF IsSpace(t[KeptAt(t, k)]) THEN "_" ELSE t[KeptAt(t, k)]]

ExpectedExtension(type) ==
    CASE type \in {"md", "markdown"} -> <<".", "m", "d">>
      [] type \in {"puml", "plantuml"} -> <<".", "p", "u", "m", "l">>
      [] OTHER -> <<".", "t", "x", "t">>

ExpectedEntry(folder, file) ==
    [path |-> Sanitized(folder.title) \o <<"_", "_", "_">> \o Sanitized(file.title)
                  \o ExpectedExtension(file.type),
     content |-> IF file.content = NoContent THEN <<>> ELSE file.content]

\* number of files in the folders before folder i
RECURSIVE FilesBefore(_, _)
FilesBefore(ws, i) == IF i <= 1 THEN 0 ELSE FilesBefore(ws, i - 1) + Len(ws[i - 1].files)

FirstSeparator(name) ==
    CHOOSE i \in 1..Len(name) :
        /\ StartsWith(Drop(name, i - 1), SEP)
        /\ \A j \in 1..(i - 1) : ~StartsWith(Drop(name, j - 1), SEP)

FolderPart(name) == SubSeq(name, 1, FirstSeparator(name) - 1)

FilePart(name) == SubSeq(name, FirstSeparator(name) + Len(SEP), Len(name))

RecoveredFolder(e) == ReplaceUnderscores(FolderPart(e.name))

RecoveredFile(e) ==
    [title |-> ReplaceUnderscores(StripExtension(FilePart(e.name))), content |-> e.content]

\* the recovered folder titles, each once, in encounter order
RECURSIVE FirstOccurrences(_)
FirstOccurrences(titles) ==
    IF titles = <<>> THEN <<>>
    ELSE LET before == SubSeq(titles, 1, Len(titles) - 1)
             last == titles[Len(titles)]
         IN  IF \E i \in 1..Len(before) : before[i] = last
             THEN FirstOccurrences(before)
             ELSE Append(FirstOccurrences(before), last)

\* the entries of one folder, in encounter order
RECURSIVE EntriesOf(_, _)
EntriesOf(title, files) ==
    IF files = <<>> THEN <<>>
    ELSE IF RecoveredFolder(files[1]) = title
         THEN <<RecoveredFile(files[1])>> \o EntriesOf(title, Tail(files))
         ELSE EntriesOf(title, Tail(files))

IdsOf(ws) ==
    {ws[i].id : i \in 1..Len(ws)}
        \cup UNION {{ws[i].files[j].id : j \in 1..Len(ws[i].files)} : i \in 1..Len(ws)}

\* C24: rebuild splitting and grouping. rebuildWorkspaceFromGist splits each
\* path at its first separator, all that follows being the file part; it makes
\* one folder per distinct recovered folder title, in encounter order, puts
\* each entry as exactly one file under its folder, and gives every folder and
\* file a fresh identifier.
C24_RebuildSplitsAndGroups ==
    ev.op = "rebuild"
        => LET files == gists["g1"].files
           IN  /\ [i \in 1..Len(subjects) |-> subjects[i].title]
                     = FirstOccurrences([i \in 1..Len(files) |-> RecoveredFolder(files[i])])
               /\ \A i \in 1..Len(subjects) :
                     [j \in 1..Len(subjects[i].files) |->
                         [title |-> subjects[i].files[j].title,
                          content |-> subjects[i].files[j].content]]
                         = EntriesOf(subjects[i].title, files)
               /\ Cardinality(IdsOf(subjects)) = CountIds(subjects)
               /\ IdsOf(subjects) \cap IdsOf(localStorage.kb_data) = {}

\* the existing gists, as a listing of the account returns them
RemoteListing ==
    LET ids == <<"g1", "g2">>
    IN  [i \in 1..2 |-> Gist(ids[i], gists[ids[i]].files, gists[ids[i]].updated_at)]

StoredGists == SelectSeq(RemoteListing, LAMBDA g : gists[g.id].exists)

\* the remote holds what this client last adopted or wrote
RemoteAsLastSynced ==
    /\ StoredGists # <<>>
    /\ hashGistContent(NewestOf(StoredGists).files) = lastSyncedHash

\* the runs that start with the client and the remote in agreement: no gist
\* yet, or a gist whose content the client has adopted or not yet seen
InitInSync ==
    /\ Init
    /\ \A g \in GistIds :
          gists[g].exists => lastSyncedHash \in {NoHash, hashGistContent(gists[g].files)}

SpecInSync == InitInSync /\ [][Next]_vars

\* C25: no spurious conflict from the client's own writes. With no other
\* writer changing the remote, a check that overlaps a save of the same client
\* never opens the conflict modal: the modal is opened only when the remote
\* content differs from what this client last adopted or wrote.
C25_NoConflictFromOwnWrites ==
    [][(ModalOpens /\ budget.remoteWrites = 0) => ~RemoteAsLastSynced]_vars

\* C26: after a cancelled conflict, as long as the remote stays unchanged and
\* the user neither saves, loads, restores nor confirms, every check begun
\* since then that fetches the snapshot opens the conflict modal again, begins
\* no save and leaves lastSyncedHash alone.
C26_CancelledConflictReprompts ==
    [][\A c \in CheckTasks :
          (CheckResumes(c) /\ Fetched(c) /\ budget.quiet /\ c \in budget.late)
          => /\ ModalOpens
             /\ NoSaveBegun
             /\ lastSyncedHash' = lastSyncedHash]_vars

\* C27: the lastSyncedHash in memory and the "lastSyncedHash" entry of
\* localStorage agree in every state an operation can observe: the memory
\* value starts as the persisted one and every write sets both in one step.
C27_HashCopiesAgree == lastSyncedHash = localStorage.lastSyncedHash

\* a confirmed conflict has just written a hash other than the one before
C27_Witness ==
    /\ ev.op = "confirm_done"
    /\ lastSyncedHash # NoHash
    /\ lastSyncedHash # hashGistContent(F_A)
    /\ localStorage.lastSyncedHash = lastSyncedHash

\* the runs after a startup check that came back without a snapshot (no gist in
\* the account yet, or a listing answered non-2xx): the timer is armed and
\* lastSyncedHash is still null
InitStarted ==
    /\ now = StartTime
    /\ \E gid \in {NULL, "g1"} :
          localStorage = [github_token |-> "tok", gist_id |-> gid, lastSyncedHash |-> NoHash,
                          kb_data |-> W_A]
    /\ lastSyncedHash = NoHash
    /\ lastSuccessfulSyncTime = 0
    /\ lastLocalEditTime = 0
    /\ subjects = W_A
    /\ syncStatus = "none"
    /\ notifications = [count |-> 0, last |-> <<"", "">>]
    /\ modals = <<>>
    /\ task = [t \in Tasks |-> IdleTask]
    /\ loop = "running"
    /\ uid = 1
    /\ \E f \in {<<>>} \cup {<<F_A>>, <<F_X>>} :
          gists = [g \in GistIds |-> IF g = "g1" /\ f # <<>> THEN Stored(f[1], 1) ELSE Absent]
    /\ remoteClock = 1
    /\ budget = [checks |-> 0, userOps |-> 0,
                 edits |-> 0, remoteWrites |-> 0, failures |-> 0,
                 cancels |-> 0, quiet |-> FALSE, late |-> {}]
    /\ ev = [op |-> "init", task |-> NULL]

NextStarted ==
    \/ Tick
    \/ RemoteWrite
    \/ UserEdit
    \/ \E t \in Tasks : ServeOk(t)
    \/ \E t \in Tasks : ServeFail(t)
    \/ \E c \in CheckTasks : PeriodicCheck(c)
    \/ \E c \in CheckTasks : ResumeCheck(c)
    \/ \E c \in CheckTasks : ResumeAutoSave(c)
    \/ \E t \in Tasks : ResumeSaveExisting(t)
    \/ \E t \in Tasks : ResumeSaveWrite(t)
    \/ \E t \in Tasks : ResumeLoad(t)
    \/ \E u \in UserTasks : UserSave(u)
    \/ \E u \in UserTasks : UserLoad(u)
    \/ \E u \in UserTasks : UserRestore(u)
    \/ \E u \in UserTasks : ResumeRestore(u)
    \/ \E i \in 1..MaxModals, k \in ConfirmTasks : ModalConfirm(i, k)
    \/ \E i \in 1..MaxModals : ModalCancel(i)

SpecStarted == InitStarted /\ [][NextStarted]_vars

AdoptionTaken == ev'.op = "check_adopt"

\* C28: once lastSyncedHash is not null it is never null again, and the
\* first-observation branch of runSyncCheck is taken only while it is null and
\* leaves it not null: the branch is taken at most once, also when several
\* checks are suspended at their fetch while the hash is still null.
C28_HashNeverNullAgain ==
    [][/\ lastSyncedHash # NoHash => (lastSyncedHash' # NoHash /\ ~AdoptionTaken)
       /\ AdoptionTaken => (lastSyncedHash = NoHash /\ lastSyncedHash' # NoHash)]_vars

\* one check has adopted while another, begun with the hash still null, waits
\* for its fetch
C28_Witness ==
    /\ ev.op = "check_adopt"
    /\ lastSyncedHash # NoHash
    /\ \E c \in CheckTasks : c # ev.task /\ task[c].pc = "chk_list"

SaveEnds(t) == task[t].pc \in SavePcs /\ task'[t].pc \notin SavePcs

\* C29: sync status protocol of a save. A save that passed the credential
\* check shows "saving" when it begins, and whatever the outcome of its network
\* calls, a thrown transport error included, it has shown "synced" or "error"
\* when it ends: the status is not "saving" after the save has ended.
C29_SaveStatusProtocol ==
    [][\A t \in Tasks :
          /\ SaveBegins(t) => syncStatus' = "saving"
          /\ SaveEnds(t) => syncStatus' \in {"synced", "error"}]_vars

ConfirmsRunning == {k \in ConfirmTasks : task[k].pc # "idle"}

\* C30: at most one conflict resolution is pending at a time. While a conflict
\* modal has fired neither onConfirm nor onCancel no check opens a second one,
\* and two confirm paths never run at the same time.
C30_OneConflictPending ==
    /\ Len(modals) <= 1
    /\ Cardinality(ConfirmsRunning) <= 1

====
